---------------------------- MODULE Spec2Model ----------------------------
(***************************************************************************)
(* A model of the YouTube collector (src/collectors/youtube.py), of the    *)
(* content table it writes (src/setup_postgres.py) and of the viewer's     *)
(* single mutation (src/viewer.py, mark_as_consumed).                      *)
(*                                                                         *)
(* Strings that the code parses (ISO 8601 durations) are sequences of      *)
(* one-character strings.  Optional[int] is an integer with None == -1.    *)
(***************************************************************************)
EXTENDS Integers, Sequences, FiniteSets, TLC

\* ------------------------------------------------------------------ bounds
MaxRuns == 2        \* collector runs per behaviour
MaxChannels == 2    \* entries of channels.yaml
MaxLen == 5         \* length of the duration strings of ParseSpec

\* ------------------------------------------------------- program constants
None == -1                  \* Python's None as an Optional[int]
ShortsThreshold == 60       \* "if duration_seconds and duration_seconds < 60"
MaxInt32 == 2147483647      \* estimated_duration INTEGER (PostgreSQL int4)

\* durOut before parse_duration has been applied
NotParsed == None - 1

\* The value None where the code expects a duration string.
NoneStr == <<"<None>">>

VARIABLES
    store,        \* the content table: a sequence of rows, in insertion order
    pc,           \* position of main()
    runs,         \* collector runs started so far
    channels,     \* main: channels
    conn,         \* main: conn, the psycopg2 connection's state
    chIdx,        \* main: index of the channel of "for channel in channels"
    video_ids,    \* fetch_channel_videos: video_ids
    rawItems,     \* fetch_channel_videos: videos_response['items']
    videos,       \* main: videos
    vIdx,         \* main: index of the video of "for video in videos"
    new_count,    \* main: new_count
    total_new,    \* main: total_new
    total_skipped,\* main: total_skipped
    reported,     \* the error main printed (or the uncaught exception)
    apiRequested, \* this run sent a request to the platform
    connAttempted,\* this run called get_db_connection
    lastResult,   \* the latest insert_video call since the last channel
                  \* began: "inserted" (True), "duplicate" (False), or the
                  \* exception it let through
    failed,       \* channels of this run that ended in the except clause
    collateral,   \* a channel failed on an error that no call of its own caused
    lostAdded,    \* rows added by channels that failed afterwards
    runAdded,     \* rows this run added to the store
    okItems,      \* items the Fetcher returned for the channels that completed
    durIn,        \* ParseSpec: the argument of parse_duration
    durOut        \* ParseSpec: its result

runVars == <<pc, runs, channels, conn, chIdx, video_ids, rawItems, videos, vIdx,
             new_count, total_new, total_skipped, reported, apiRequested,
             connAttempted, lastResult, failed, collateral, lostAdded,
             runAdded, okItems>>
parseVars == <<durIn, durOut>>
vars == <<store, runVars, parseVars>>

\* ------------------------------------------------------------ parse_duration
Digits == {"0", "1", "2", "3", "4", "5", "6", "7", "8", "9"}

DigitVal(c) ==
    CASE c = "0" -> 0 [] c = "1" -> 1 [] c = "2" -> 2 [] c = "3" -> 3
      [] c = "4" -> 4 [] c = "5" -> 5 [] c = "6" -> 6 [] c = "7" -> 7
      [] c = "8" -> 8 [] c = "9" -> 9

\* int(s[p..q]) for a run of decimal digits of s
RECURSIVE ToInt(_, _, _)
ToInt(s, p, q) ==
    IF q < p THEN 0 ELSE ToInt(s, p, q - 1) * 10 + DigitVal(s[q])

\* last index of the run of digits of s that starts at p (p - 1: no digit)
RECURSIVE DigitRunEnd(_, _)
DigitRunEnd(s, p) ==
    IF p <= Len(s) /\ s[p] \in Digits THEN DigitRunEnd(s, p + 1) ELSE p - 1

\* the optional group (?:(\d+)U)? tried at position p
Segment(s, p, unit) ==
    LET q == DigitRunEnd(s, p) IN
    IF q >= p /\ q + 1 <= Len(s) /\ s[q + 1] = unit
    THEN [val |-> ToInt(s, p, q), next |-> q + 2]
    ELSE [val |-> 0, next |-> p]

\* Python's integers are unbounded and the model's are not: a value of
\* MaxInt32 or more is held as TooBig (exact below it; no input of the model
\* evaluates to MaxInt32 itself, the one value this merges with the larger).
TooBig == MaxInt32

Times(a, b) == IF b # 0 /\ a > (TooBig - 1) \div b THEN TooBig ELSE a * b

Plus(a, b) == IF a >= TooBig \/ b >= TooBig \/ a > TooBig - 1 - b THEN TooBig ELSE a + b

\* re.match anchors at the start only: what follows the groups is ignored
parse_duration(duration) ==
    IF duration = NoneStr \/ duration = <<>> THEN None
    ELSE IF Len(duration) < 2 \/ duration[1] # "P" \/ duration[2] # "T" THEN None
    ELSE LET h == Segment(duration, 3, "H")
             m == Segment(duration, h.next, "M")
             s == Segment(duration, m.next, "S")
         IN Plus(Plus(Times(h.val, 3600), Times(m.val, 60)), s.val)

\* ------------------------------------------------------------ input domains
\* channels.yaml holds the first k channels, k <= MaxChannels
Channel(i) == [id |-> <<"UC", i>>, name |-> i]
ChannelLists == {[i \in 1..k |-> Channel(i)] : k \in 0..MaxChannels}
VideoIds == {"v1", "v2"}
\* "", PT0S, PT59S, PT1M and PT600000H (2 160 000 000 s, beyond int4)
DurationInputs ==
    { <<>>,
      <<"P", "T", "0", "S">>,
      <<"P", "T", "5", "9", "S">>,
      <<"P", "T", "1", "M">>,
      <<"P", "T", "6", "0", "0", "0", "0", "0", "H">> }

\* what playlistItems can return: distinct uploads, in any order
IdLists ==
    {ids \in UNION {[1..k -> VideoIds] : k \in 0..Cardinality(VideoIds)} :
        \A i, j \in 1..Len(ids) : i # j => ids[i] # ids[j]}

\* parse_duration on the durations the platform sends, evaluated once
Parsed == [d \in DurationInputs |-> parse_duration(d)]

\* ------------------------------------------------------ fetch_channel_videos
\* Python truthiness of an Optional[int]: None and 0 are both false
Truthy(d) == d # None /\ d # 0

\* "if duration_seconds and duration_seconds < 60: continue"
IsShort(d) == Truthy(d) /\ d < ShortsThreshold

Url(video_id) == <<"https://www.youtube.com/watch?v=", video_id>>

\* video_data, without the fields no step of the collector reads (title,
\* description, thumbnail, published_at, channel_name): they are copied as is
video_data(video) ==
    [video_id |-> video.id,
     url |-> Url(video.id),
     duration_seconds |-> Parsed[video.duration]]

\* the loop over videos_response['items']: keeps the platform's order
RECURSIVE FilterItems(_)
FilterItems(items) ==
    IF items = <<>> THEN <<>>
    ELSE LET video == Head(items)
             duration_seconds == Parsed[video.duration]
         IN IF IsShort(duration_seconds)
            THEN FilterItems(Tail(items))
            ELSE <<video_data(video)>> \o FilterItems(Tail(items))

\* ------------------------------------------------------- the content table
\* the table without the UNIQUE constraint on url
UrlTaken_NoConstraint(rows, url) == FALSE

\* url TEXT UNIQUE NOT NULL: the unique index finds a row with this url
UrlTaken(rows, url) == \E i \in 1..Len(rows) : rows[i].url = url

\* the row INSERT INTO content adds: id is the serial key, consumed defaults
\* to FALSE, estimated_duration takes duration_seconds (None is NULL)
NewRow(rows, video) ==
    [id |-> Len(rows) + 1,
     url |-> video.url,
     estimated_duration |-> video.duration_seconds,
     consumed |-> FALSE]

\* The exception cursor.execute meets ("none": the row is inserted).
\* A connection whose transaction a failed statement aborted, and that was
\* never rolled back, rejects every later statement (InFailedSqlTransaction,
\* an InternalError).  fault: the store fails this statement for a reason of
\* its own (cancelled, timed out, deadlocked: an OperationalError).  A value
\* beyond int4 is a DataError, raised before the unique index is consulted.
InsertError(connState, fault, rows, video) ==
    IF connState = "aborted" THEN "InternalError"
    ELSE IF fault THEN "OperationalError"
    ELSE IF video.duration_seconds >= TooBig THEN "DataError"
    ELSE IF UrlTaken(rows, video.url) THEN "IntegrityError"
    ELSE "none"

\* "except Exception" in place of "except psycopg2.IntegrityError"
Caught_Any(err) == err # "none"

\* "except psycopg2.IntegrityError": the only class insert_video catches
Caught(err) == err = "IntegrityError"

\* the connection after insert_video: commit on success, rollback in the
\* except clause, and nothing at all for an exception that propagates
ConnAfter(connState, err) ==
    IF err = "none" \/ Caught(err) THEN "open" ELSE "aborted"

\* the UPDATE without its WHERE clause
SetConsumed_AllRows(rows, content_id, consumed) ==
    [i \in 1..Len(rows) |-> [rows[i] EXCEPT !.consumed = consumed]]

\* UPDATE content SET consumed = %s WHERE id = %s
SetConsumed(rows, content_id, consumed) ==
    [i \in 1..Len(rows) |->
        IF rows[i].id = content_id
        THEN [rows[i] EXCEPT !.consumed = consumed]
        ELSE rows[i]]

\* ------------------------------------------------------------------- main
Terminal == {"idle", "done", "returned", "crashed"}

\* the channel loop without its try/except: the exception ends main
AfterException_Uncaught == "crashed"

\* where main goes after "except Exception as e" at the channel boundary
AfterException == "loop"

\* the connection handler without its "return"
AfterConnectFailure_Continue == "loop"

\* where main goes after "except Exception as e" around get_db_connection()
AfterConnectFailure == "returned"

\* "total_new += len(videos)" in place of "total_new += new_count"
CountNew_AllItems(vs, n) == Len(vs)

\* what the totals gain when a channel completes
CountNew(vs, n) == n
CountSkipped(vs, n) == Len(vs) - n

Init ==
    /\ store = <<>>
    /\ pc = "idle"
    /\ runs = 0
    /\ channels = <<>>
    /\ conn = "none"
    /\ chIdx = 1
    /\ video_ids = <<>>
    /\ rawItems = <<>>
    /\ videos = <<>>
    /\ vIdx = 1
    /\ new_count = 0
    /\ total_new = 0
    /\ total_skipped = 0
    /\ reported = "none"
    /\ apiRequested = FALSE
    /\ connAttempted = FALSE
    /\ lastResult = "none"
    /\ failed = 0
    /\ collateral = FALSE
    /\ lostAdded = 0
    /\ runAdded = 0
    /\ okItems = 0
    /\ durIn = <<>>
    /\ durOut = NotParsed

\* python collectors/youtube.py: a new process, nothing kept but the store
StartRun ==
    /\ pc \in Terminal
    /\ runs < MaxRuns
    /\ pc' = "start"
    /\ runs' = runs + 1
    /\ channels' = <<>>
    /\ conn' = "none"
    /\ chIdx' = 1
    /\ video_ids' = <<>>
    /\ rawItems' = <<>>
    /\ videos' = <<>>
    /\ vIdx' = 1
    /\ new_count' = 0
    /\ total_new' = 0
    /\ total_skipped' = 0
    /\ reported' = "none"
    /\ apiRequested' = FALSE
    /\ connAttempted' = FALSE
    /\ lastResult' = "none"
    /\ failed' = 0
    /\ collateral' = FALSE
    /\ lostAdded' = 0
    /\ runAdded' = 0
    /\ okItems' = 0
    /\ UNCHANGED <<store, parseVars>>

\* os.getenv('YOUTUBE_API_KEY'); build(...)
CheckApiKey ==
    /\ pc = "start"
    /\ \E api_key \in BOOLEAN :
          IF api_key
          THEN pc' = "load" /\ UNCHANGED reported
          ELSE pc' = "returned" /\ reported' = "YOUTUBE_API_KEY not found"
    /\ UNCHANGED <<store, runs, channels, conn, chIdx, video_ids, rawItems, videos,
                   vIdx, new_count, total_new, total_skipped, apiRequested, connAttempted,
                   lastResult, failed, collateral, lostAdded, runAdded, okItems, parseVars>>

\* load_channels(): only FileNotFoundError is caught
LoadChannels ==
    /\ pc = "load"
    /\ \/ /\ pc' = "returned"                     \* except FileNotFoundError
          /\ reported' = "channels.yaml not found"
          /\ UNCHANGED channels
       \/ /\ pc' = "crashed"                      \* any other exception
          /\ reported' = "traceback"
          /\ UNCHANGED channels
       \/ \E r \in ChannelLists :
             /\ pc' = "connect"
             /\ channels' = r
             /\ UNCHANGED reported
    /\ UNCHANGED <<store, runs, conn, chIdx, video_ids, rawItems, videos, vIdx,
                   new_count, total_new, total_skipped, apiRequested, connAttempted, lastResult,
                   failed, collateral, lostAdded, runAdded, okItems, parseVars>>

\* get_db_connection(): "except Exception"; then the totals start at 0
Connect ==
    /\ pc = "connect"
    /\ connAttempted' = TRUE
    /\ \E ok \in BOOLEAN :
          IF ok
          THEN pc' = "loop" /\ conn' = "open" /\ UNCHANGED reported
          ELSE pc' = AfterConnectFailure /\ reported' = "Database connection failed"
               /\ UNCHANGED conn
    /\ total_new' = 0
    /\ total_skipped' = 0
    /\ UNCHANGED <<store, runs, channels, chIdx, video_ids, rawItems, videos, vIdx,
                   new_count, apiRequested, lastResult, failed, collateral,
                   lostAdded, runAdded, okItems, parseVars>>

\* an exception inside the try of the channel loop: the handler prints it and
\* the loop goes on with the next channel; own: it arose in this channel's
\* own request or statement
Raise(own) ==
    /\ pc' = AfterException
    /\ chIdx' = chIdx + 1
    /\ failed' = failed + 1
    /\ collateral' = (collateral \/ ~own)
    /\ lostAdded' = lostAdded + new_count
    /\ video_ids' = <<>>
    /\ rawItems' = <<>>
    /\ videos' = <<>>
    /\ vIdx' = 1
    /\ new_count' = 0
    /\ UNCHANGED <<runAdded, okItems>>

\* youtube.playlistItems().list(...).execute(): the first request of
\* fetch_channel_videos; an empty list returns at once
ListPlaylist ==
    /\ pc = "loop"
    /\ chIdx <= Len(channels)
    /\ apiRequested' = TRUE
    /\ lastResult' = "none"
    /\ \/ Raise(TRUE)                              \* the request fails
       \/ \E r \in IdLists :
             /\ video_ids' = r
             /\ pc' = IF r = <<>> THEN "write" ELSE "metadata"
             /\ videos' = <<>>
             /\ vIdx' = 1
             /\ new_count' = 0
             /\ UNCHANGED <<chIdx, rawItems, failed, collateral, lostAdded, runAdded, okItems>>
    /\ UNCHANGED <<store, runs, channels, conn, total_new, total_skipped, reported,
                   connAttempted, parseVars>>

\* youtube.videos().list(...).execute(): one item per requested id
GetMetadata ==
    /\ pc = "metadata"
    /\ \/ Raise(TRUE)                              \* the request fails
       \/ \E r \in [1..Len(video_ids) -> DurationInputs] :
             /\ rawItems' = [i \in 1..Len(video_ids) |->
                                [id |-> video_ids[i], duration |-> r[i]]]
             /\ pc' = "filter"
             /\ UNCHANGED <<chIdx, video_ids, videos, vIdx, new_count,
                            failed, collateral, lostAdded, runAdded, okItems>>
    /\ UNCHANGED <<store, runs, channels, conn, total_new, total_skipped, reported,
                   apiRequested, connAttempted, lastResult, parseVars>>

\* the loop of fetch_channel_videos over the items, and "new_count = 0"
FilterVideos ==
    /\ pc = "filter"
    /\ videos' = FilterItems(rawItems)
    /\ vIdx' = 1
    /\ new_count' = 0
    /\ pc' = "write"
    /\ video_ids' = <<>>
    /\ rawItems' = <<>>
    /\ UNCHANGED <<store, runs, channels, conn, chIdx, total_new, total_skipped,
                   reported, apiRequested, connAttempted, lastResult, failed, collateral,
                   lostAdded, runAdded, okItems, parseVars>>

\* one insert_video(conn, video) of "for video in videos"; fault: the store
\* fails the statement for a reason of its own
InsertVideo ==
    /\ pc = "write"
    /\ vIdx <= Len(videos)
    /\ \E fault \in BOOLEAN :
          /\ fault => conn = "open"
          /\ LET video == videos[vIdx]
                 err == InsertError(conn, fault, store, video)
             IN /\ conn' = ConnAfter(conn, err)
                /\ IF err = "none"
                   THEN /\ store' = Append(store, NewRow(store, video))
                        /\ lastResult' = "inserted"
                        /\ new_count' = new_count + 1
                        /\ runAdded' = runAdded + 1
                        /\ vIdx' = vIdx + 1
                        /\ UNCHANGED <<pc, chIdx, video_ids, rawItems, videos,
                                       failed, collateral, lostAdded, okItems>>
                   ELSE IF Caught(err)
                   THEN /\ lastResult' = "duplicate"
                        /\ vIdx' = vIdx + 1
                        /\ UNCHANGED <<store, pc, chIdx, video_ids, rawItems, videos,
                                       new_count, failed, collateral, lostAdded, runAdded, okItems>>
                   ELSE /\ lastResult' = err
                        /\ Raise(err \in {"DataError", "OperationalError"})
                        /\ UNCHANGED store
    /\ UNCHANGED <<runs, channels, total_new, total_skipped, reported, apiRequested, connAttempted,
                   parseVars>>

\* after the last video: skipped_count, the totals, the channel's line
FinishChannel ==
    /\ pc = "write"
    /\ vIdx > Len(videos)
    /\ total_new' = total_new + CountNew(videos, new_count)
    /\ total_skipped' = total_skipped + CountSkipped(videos, new_count)
    /\ okItems' = okItems + Len(videos)
    /\ chIdx' = chIdx + 1
    /\ pc' = "loop"
    /\ videos' = <<>>
    /\ vIdx' = 1
    /\ new_count' = 0
    /\ UNCHANGED <<store, runs, channels, conn, video_ids, rawItems, reported,
                   apiRequested, connAttempted, lastResult, failed, collateral,
                   lostAdded, runAdded, parseVars>>

\* conn.close() and the final summary
Summary ==
    /\ pc = "loop"
    /\ chIdx > Len(channels)
    /\ conn' = "closed"
    /\ pc' = "done"
    /\ lastResult' = "none"
    /\ UNCHANGED <<store, runs, channels, chIdx, video_ids, rawItems, videos, vIdx,
                   new_count, total_new, total_skipped, reported, apiRequested,
                   connAttempted, failed, collateral, lostAdded, runAdded, okItems,
                   parseVars>>

\* viewer.py: mark_as_consumed(content_id, consumed) from a card's button
MarkAsConsumed ==
    /\ \E content_id \in 1..Len(store), consumed \in BOOLEAN :
          store' = SetConsumed(store, content_id, consumed)
    /\ UNCHANGED <<runVars, parseVars>>

Collector ==
    \/ StartRun
    \/ CheckApiKey
    \/ LoadChannels
    \/ Connect
    \/ ListPlaylist
    \/ GetMetadata
    \/ FilterVideos
    \/ InsertVideo
    \/ FinishChannel
    \/ Summary

Next == Collector \/ MarkAsConsumed

Spec == Init /\ [][Next]_vars

\* The collector alone, as the sequential program it is: it always takes its
\* next step.  The viewer reads and writes nothing but the consumed field
\* (C8, under Spec), which no step of the collector reads.
FairSpec == Init /\ [][Collector]_vars /\ WF_vars(Collector)

\* ------------------------------------------- parse_duration on its own
ParseAlphabet == {"P", "T", "H", "M", "S", "0", "1", "5", "x"}

ExtendInput ==
    /\ durIn # NoneStr
    /\ Len(durIn) < MaxLen
    /\ \E c \in ParseAlphabet : durIn' = Append(durIn, c)
    /\ durOut' = NotParsed
    /\ UNCHANGED <<store, runVars>>

PassNone ==
    /\ durIn = <<>>
    /\ durIn' = NoneStr
    /\ durOut' = NotParsed
    /\ UNCHANGED <<store, runVars>>

Parse ==
    /\ durOut = NotParsed
    /\ durOut' = parse_duration(durIn)
    /\ UNCHANGED <<durIn, store, runVars>>

ParseNext == ExtendInput \/ PassNone \/ Parse

ParseSpec == Init /\ [][ParseNext]_vars

\* The form PT#H#M#S of the contract, stated without the parser: "PT", then
\* the hours, minutes and seconds segments, each absent or digits and a unit.
IsSegment(x, unit) ==
    \/ x = <<>>
    \/ /\ Len(x) >= 2
       /\ x[Len(x)] = unit
       /\ \A k \in 1..(Len(x) - 1) : x[k] \in Digits

SegmentValue(x) == IF x = <<>> THEN 0 ELSE ToInt(x, 1, Len(x) - 1)

Splits(s) ==
    {ij \in (2..Len(s)) \X (2..Len(s)) :
        /\ ij[1] <= ij[2]
        /\ IsSegment(SubSeq(s, 3, ij[1]), "H")
        /\ IsSegment(SubSeq(s, ij[1] + 1, ij[2]), "M")
        /\ IsSegment(SubSeq(s, ij[2] + 1, Len(s)), "S")}

WellFormed(s) ==
    /\ s # NoneStr
    /\ Len(s) >= 2
    /\ s[1] = "P"
    /\ s[2] = "T"
    /\ Splits(s) # {}

ContractSeconds(s) ==
    LET ij == CHOOSE x \in Splits(s) : TRUE
    IN SegmentValue(SubSeq(s, 3, ij[1])) * 3600
       + SegmentValue(SubSeq(s, ij[1] + 1, ij[2])) * 60
       + SegmentValue(SubSeq(s, ij[2] + 1, Len(s)))

\* ------------------------------------------------------------------ claims
Returned == {"inserted", "duplicate"}

\* a step that is one call of insert_video
IsInsertCall == pc = "write" /\ vIdx <= Len(videos) /\ runVars' # runVars

\* some row holds this url
HasUrl(rows, url) == url \in {rows[i].url : i \in 1..Len(rows)}

UniqueUrls(rows) ==
    \A i, j \in 1..Len(rows) : i # j => rows[i].url # rows[j].url

\* the filter as the contract states it
RECURSIVE RetainedByContract(_)
RetainedByContract(items) ==
    IF items = <<>> THEN <<>>
    ELSE LET d == Parsed[Head(items).duration]
         IN IF d = None \/ d >= ShortsThreshold
            THEN <<video_data(Head(items))>> \o RetainedByContract(Tail(items))
            ELSE RetainedByContract(Tail(items))

\* C1: fetch_channel_videos retains an item iff its parsed duration is
\* unparsable or at least 60; every number below 60, 0 included, is dropped.
C1_RetainedIffUnparsableOrLong ==
    [][(pc = "filter" /\ pc' = "write") => videos' = RetainedByContract(rawItems)]_vars

\* C2: every stored row's estimated_duration is null or at least 60, never 0.
C2_StoredDurationNullOrLong ==
    \A i \in 1..Len(store) :
        \/ store[i].estimated_duration = None
        \/ store[i].estimated_duration >= ShortsThreshold

C4_ChannelFailuresIsolated ==
    /\ ~collateral
    /\ pc = "done" =>
          /\ total_new = runAdded - lostAdded
          /\ total_new + total_skipped = okItems

\* C5: a run that has reached the channel loop reaches the summary, whatever
\* fails during fetch or write; the channels are taken one at a time, in list
\* order, all of them before the summary.
C5_SummaryAlwaysReached ==
    /\ (pc = "loop") ~> (pc = "done")
    /\ [][/\ (chIdx' # chIdx /\ pc' # "start") =>
                /\ chIdx' = chIdx + 1
                /\ chIdx <= Len(channels)
                /\ pc' = "loop"
          /\ (pc = "loop" /\ pc' \in {"metadata", "write"}) =>
                chIdx' = chIdx /\ chIdx <= Len(channels)
          /\ (pc # "done" /\ pc' = "done") =>
                pc = "loop" /\ chIdx = Len(channels) + 1]_vars

\* the summary was printed after some, but not all, channels failed
C5_Witness ==
    /\ pc = "done"
    /\ failed >= 1
    /\ failed < Len(channels)

\* C6: a missing credential, a missing or unreadable channels.yaml or a
\* failed store connection is reported and ends the run at once: no request
\* was sent, no video fetched, no row written, no channel processed; for the
\* configuration errors not even the store connection was attempted.
C6_FatalStartupErrors ==
    /\ pc \in {"returned", "crashed"} <=> reported # "none"
    /\ reported # "none" =>
          /\ ~apiRequested
          /\ runAdded = 0
          /\ video_ids = <<>> /\ rawItems = <<>> /\ videos = <<>>
          /\ chIdx = 1 /\ failed = 0 /\ okItems = 0
          /\ conn = "none"
    /\ reported \in {"YOUTUBE_API_KEY not found", "channels.yaml not found",
                     "traceback"} => ~connAttempted

\* the store connection failed with channels loaded and rows in the table
C6_Witness ==
    /\ pc = "returned"
    /\ reported = "Database connection failed"
    /\ Len(channels) > 0
    /\ Len(store) > 0

\* C7: parse_duration returns H*3600 + M*60 + S for every string of the form
\* PT#H#M#S (segments optional) and None for "", for None and for every
\* string that is not of that form.
C7_ParseContract ==
    durOut # NotParsed =>
        IF WellFormed(durIn)
        THEN durOut = ContractSeconds(durIn)
        ELSE durOut = None

\* C8: a step of the collector leaves every stored row as it was and adds
\* rows only with consumed = FALSE; a step of the viewer changes nothing but
\* the consumed field of the row with the given id.
C8_OnlyViewerWritesConsumed ==
    [][/\ runVars' # runVars =>
            /\ Len(store') >= Len(store)
            /\ SubSeq(store', 1, Len(store)) = store
            /\ \A i \in (Len(store) + 1)..Len(store') : store'[i].consumed = FALSE
       /\ runVars' = runVars =>
            /\ Len(store') = Len(store)
            /\ \E id \in {store[i].id : i \in 1..Len(store)} \cup {0} :
                  \A i \in 1..Len(store) :
                     \/ store'[i] = store[i]
                     \/ /\ store[i].id = id
                        /\ store'[i] = [store[i] EXCEPT !.consumed = store'[i].consumed]]_vars

\* a duplicate of a row the viewer had marked consumed was offered and
\* rejected, and the row is still consumed
C8_Witness ==
    /\ pc = "write"
    /\ vIdx > 1
    /\ lastResult = "duplicate"
    /\ \E i \in 1..Len(store) :
          store[i].url = videos[vIdx - 1].url /\ store[i].consumed

\* C9 as stated: no insert_video call raises; every failure is reported False.
C9_EveryFailureReportedFalse == lastResult \in {"none"} \cup Returned

\* C9 as amended: insert_video rolls back and returns False only for the
\* IntegrityError of the url constraint; every other failure (a DataError, a
\* failure of the store's own, an aborted transaction) leaves insert_video as
\* an exception, with no rollback, and ends the channel at its boundary.
C9_OnlyIntegrityErrorReportedFalse ==
    [][IsInsertCall =>
         LET video == videos[vIdx]
             present == HasUrl(store, video.url)
         IN /\ lastResult' = "duplicate" =>
                  /\ present
                  /\ conn = "open" /\ conn' = "open"
                  /\ store' = store
                  /\ pc' = "write" /\ vIdx' = vIdx + 1 /\ new_count' = new_count
            /\ lastResult' \notin Returned =>
                  /\ lastResult' \in {"DataError", "OperationalError", "InternalError"}
                  /\ conn' = "aborted"
                  /\ store' = store
                  /\ pc' = "loop" /\ chIdx' = chIdx + 1 /\ failed' = failed + 1
            /\ conn = "aborted" => lastResult' = "InternalError"
            /\ (conn = "open" /\ video.duration_seconds >= TooBig) =>
                  lastResult' \in {"DataError", "OperationalError"}]_vars

\* an insert failed on a value beyond int4: the exception left insert_video
C9_Witness ==
    /\ lastResult = "DataError"
    /\ conn = "aborted"
    /\ pc = "loop"
    /\ failed >= 1

\* C10 as stated: at the end of a run the reported total of new items is the
\* number of rows the run added, and new + duplicate is the number of items
\* returned for the channels that succeeded.
C10_TotalNewIsRowsAdded ==
    pc = "done" =>
        /\ total_new = runAdded
        /\ total_new + total_skipped = okItems

\* C10 as amended: the reported total of new items is the number of rows
\* added by the channels that completed; rows a channel committed before it
\* failed are in the store and in no total, so the total never exceeds the
\* rows added and equals them when no channel failed; new + duplicate is the
\* number of items returned for the channels that completed.
C10_TotalsCountCompletedChannels ==
    /\ runAdded = total_new + new_count + lostAdded
    /\ runAdded <= Len(store)
    /\ pc = "done" =>
          /\ total_new = runAdded - lostAdded
          /\ total_new <= runAdded
          /\ failed = 0 => total_new = runAdded
          /\ total_new + total_skipped = okItems

\* a run ended with rows counted and rows a failed channel had committed
C10_Witness ==
    /\ pc = "done"
    /\ lostAdded > 0
    /\ total_new > 0

=============================================================================
